---------------------------- MODULE Spec2Model ----------------------------
(***************************************************************************)
(* Model of scripts/gmail-extractor/main.py: the paginated listing         *)
(* (gmail_list_all), the fetch / sort / save pipeline of main, the body    *)
(* extraction (extract_best_body), the file name sanitizer                 *)
(* (sanitize_filename) and the document assembler (build_markdown).        *)
(*                                                                         *)
(* Python strings are modelled as sequences of one-character strings, so   *)
(* that the string functions are computed character by character.          *)
(***************************************************************************)
EXTENDS Integers, Sequences, FiniteSets, TLC

VARIABLES
    \* gmail_list_all
    max_results,    \* the caller's cap (argument max_results)
    messages,       \* the accumulated message references
    page_token,     \* the continuation token of the last response, NoToken at first
    lpc,            \* "loop" while the while-loop runs, "done" after the return
    requests,       \* history: one record per list request sent to the server
    short_pages,    \* history: responses whose size differs from the requested one
    stalls,         \* history: empty pages that came with a continuation token
    overfull,       \* history: some response held more than was requested
    all_tokens,     \* history: every response so far offered a continuation token
    \* sanitize_filename
    name_in,        \* the argument name
    name_max,       \* the argument max_len
    name_out,       \* the returned file name
    npc,            \* "call" before the call, "returned" after it
    \* build_markdown
    md_in,          \* the six arguments
    md_out,         \* the returned text
    dpc,            \* "call" before the call, "returned" after it
    \* extract_best_body and the choice of the body in main
    body_in,        \* the argument payload, a MessagePart tree
    best,           \* the returned pair (html, text)
    content,        \* content_md, the body main builds from the pair
    bpc,            \* "call" before the call, "returned" after it
    \* main
    msg_refs,       \* the references gmail_list_all returned
    prefix,         \* args.prefix
    fetch_i,        \* the rounds of the fetch loop done
    full_msgs,      \* the fetched messages
    mpc,            \* "fetch", "save", "done", or "raised in ..." once an exception left main
    written,        \* the files written so far, in order
    outcomes,       \* history: what each fetch did
    handed          \* history: full_msgs as the sort received it

\* page_token = NoToken: no continuation token (the tokens of the model are the
\* page numbers 1, 2, ...)
NoToken == 0

Min(a, b) == IF a <= b THEN a ELSE b

listVars == << max_results, messages, page_token, lpc, requests, short_pages,
               stalls, overfull, all_tokens >>

nameVars == << name_in, name_max, name_out, npc >>

mdVars == << md_in, md_out, dpc >>

bodyVars == << body_in, best, content, bpc >>

mainVars == << msg_refs, prefix, fetch_i, full_msgs, mpc, written, outcomes, handed >>

notListVars == << nameVars, mdVars, bodyVars, mainVars >>

notNameVars == << listVars, mdVars, bodyVars, mainVars >>

notMdVars == << listVars, nameVars, bodyVars, mainVars >>

notBodyVars == << listVars, nameVars, mdVars, mainVars >>

notMainVars == << listVars, nameVars, mdVars, bodyVars >>

vars == << listVars, nameVars, mdVars, bodyVars, mainVars >>

----------------------------------------------------------------------------
(* gmail_list_all, main.py lines 131-163                                    *)

\* maxResults=min(500, remaining): the protocol's page size cap
PageCap == 500

\* the number of responses, per run, whose size may differ from the request
MaxShortPages == 2

\* small caps, tried next to the caps around PageCap
MaxSmall == 3

MaxResultsChoices == (0 .. MaxSmall) \cup {499, 500, 501, 650, 1001}

\* remaining = max_results - len(messages)
Remaining(max, msgs) == max - Len(msgs)

LoopEndsOnlyBelowZero(remaining) == remaining < 0

\* if remaining <= 0: break
LoopEnds(remaining) == remaining <= 0

PageSizeUncapped(remaining) == remaining

\* maxResults=min(500, remaining)
PageSize(remaining) == Min(PageCap, remaining)

\* The page sizes a server is tried with: empty, one, one short, full, one more.
BatchSizes(size) == {n \in {0, 1, size - 1, size, size + 1} : n >= 0}

\* The references of a page of n entries that follows `have` listed ones.
Batch(have, n) == [i \in 1 .. n |-> have + i]

InitList ==
    /\ max_results \in MaxResultsChoices
    /\ messages = << >>
    /\ page_token = NoToken
    /\ lpc = "loop"
    /\ requests = << >>
    /\ short_pages = 0
    /\ stalls = 0
    /\ overfull = FALSE
    /\ all_tokens = TRUE

\* no listing is run
IdleList ==
    /\ max_results = 0
    /\ messages = << >>
    /\ page_token = NoToken
    /\ lpc = "idle"
    /\ requests = << >>
    /\ short_pages = 0
    /\ stalls = 0
    /\ overfull = FALSE
    /\ all_tokens = TRUE

\* lines 140-142: the cap is reached, the loop is left without a request
ListBreak ==
    /\ lpc = "loop"
    /\ LoopEnds(Remaining(max_results, messages))
    /\ lpc' = "done"
    /\ UNCHANGED << max_results, messages, page_token, requests, short_pages,
                    stalls, overfull, all_tokens >>
    /\ UNCHANGED notListVars

\* lines 140-161: one round that sends a request; the server answers with n
\* references and with a continuation token (next > 0) or without one.
ListPage ==
    /\ lpc = "loop"
    /\ ~ LoopEnds(Remaining(max_results, messages))
    /\ LET remaining == Remaining(max_results, messages)
           size == PageSize(remaining)
       IN  \E n \in BatchSizes(size), more \in BOOLEAN :
              /\ n # size => short_pages < MaxShortPages
              /\ requests' = Append(requests,
                     [maxResults |-> size, pageToken |-> page_token,
                      have |-> Len(messages)])
              /\ messages' = messages \o Batch(Len(messages), n)
              /\ page_token' = IF more THEN Len(requests) + 1 ELSE NoToken
              /\ lpc' = IF more THEN "loop" ELSE "done"
              /\ short_pages' = IF n # size THEN short_pages + 1 ELSE short_pages
              /\ stalls' = IF n = 0 /\ more THEN stalls + 1 ELSE stalls
              /\ overfull' = (overfull \/ n > size)
              /\ all_tokens' = (all_tokens /\ more)
    /\ UNCHANGED max_results
    /\ UNCHANGED notListVars


----------------------------------------------------------------------------
(* Strings: a Python str is a sequence of one-character strings; an         *)
(* argument that may be None is a record [none, s].                         *)

NoneStr == [none |-> TRUE, s |-> << >>]

SomeStr(s) == [none |-> FALSE, s |-> s]

\* (x or ""): None and the empty string both give the empty string
OrEmpty(x) == IF x.none THEN << >> ELSE x.s

\* the truth value of an optional string: `if x`
Truthy(x) == ~ x.none /\ x.s # << >>

\* the characters str.strip() removes and the regex class \s matches
WhiteSpace == {" ", "\t", "\n", "\r", "\f"}

RECURSIVE LStrip(_)
LStrip(s) ==
    IF s = << >> THEN << >>
    ELSE IF Head(s) \in WhiteSpace THEN LStrip(Tail(s)) ELSE s

RECURSIVE RStrip(_)
RStrip(s) ==
    IF s = << >> THEN << >>
    ELSE IF s[Len(s)] \in WhiteSpace THEN RStrip(SubSeq(s, 1, Len(s) - 1)) ELSE s

\* str.strip()
Strip(s) == RStrip(LStrip(s))

\* s[:n]
Take(s, n) == SubSeq(s, 1, Min(n, Len(s)))

\* the longest prefix of s made of characters of class, dropped
RECURSIVE DropRun(_, _)
DropRun(s, class) ==
    IF s = << >> THEN << >>
    ELSE IF Head(s) \in class THEN DropRun(Tail(s), class) ELSE s

\* re.sub(r"[class]", repl, s): every character of the class replaced
RECURSIVE SubEach(_, _, _)
SubEach(s, class, repl) ==
    IF s = << >> THEN << >>
    ELSE IF Head(s) \in class
         THEN repl \o SubEach(Tail(s), class, repl)
         ELSE << Head(s) >> \o SubEach(Tail(s), class, repl)

\* re.sub(r"[class]+", repl, s): every maximal run of characters of the class
\* replaced, leftmost first
RECURSIVE SubRuns(_, _, _)
SubRuns(s, class, repl) ==
    IF s = << >> THEN << >>
    ELSE IF Head(s) \in class
         THEN repl \o SubRuns(DropRun(s, class), class, repl)
         ELSE << Head(s) >> \o SubRuns(Tail(s), class, repl)

\* "\n".join(lines)
RECURSIVE JoinLines(_)
JoinLines(lines) ==
    IF lines = << >> THEN << >>
    ELSE IF Len(lines) = 1 THEN lines[1]
    ELSE lines[1] \o << "\n" >> \o JoinLines(Tail(lines))

----------------------------------------------------------------------------
(* sanitize_filename, main.py lines 25-31                                   *)

\* the character class of r"[\\/:*?\"<>|]+"
ForbiddenChars == {"\\", "/", ":", "*", "?", "\"", "<", ">", "|"}

\* max_len: int = 140
DefaultMaxLen == 140

\* "sem-titulo"
SemTitulo == << "s", "e", "m", "-", "t", "i", "t", "u", "l", "o" >>

ReplaceForbiddenEach(s) == SubEach(s, ForbiddenChars, << "-" >>)

\* name = re.sub(r"[\\/:*?\"<>|]+", "-", name)
ReplaceForbidden(s) == SubRuns(s, ForbiddenChars, << "-" >>)

\* name = re.sub(r"\s+", " ", name)
CollapseSpace(s) == SubRuns(s, WhiteSpace, << " " >>)

sanitize_filename(name, max_len) ==
    LET n1 == Strip(OrEmpty(name))
        n2 == ReplaceForbidden(n1)
        n3 == CollapseSpace(n2)
        n4 == Strip(Take(n3, max_len))
    IN  IF n4 # << >> THEN n4 ELSE SemTitulo

----------------------------------------------------------------------------
(* yaml_safe and build_markdown, main.py lines 34-36 and 170-197            *)

\* (s or "").replace('"', "'").strip()
yaml_safe(x) == Strip(SubEach(OrEmpty(x), {"\""}, << "'" >>))

\* the lines of the list fm
FrontMatter(subject, from_, to, date_str, message_id) ==
    << << "-", "-", "-" >>,
       << "t", "i", "t", "l", "e", ":", " ", "\"" >> \o yaml_safe(subject) \o << "\"" >>,
       << "f", "r", "o", "m", ":", " ", "\"" >> \o yaml_safe(from_) \o << "\"" >>,
       << "t", "o", ":", " ", "\"" >> \o yaml_safe(to) \o << "\"" >>,
       IF Truthy(date_str)
       THEN << "d", "a", "t", "e", ":", " ", "\"" >> \o yaml_safe(date_str) \o << "\"" >>
       ELSE << "d", "a", "t", "e", ":", " ", "\"" >> \o << "\"" >>,
       << "m", "e", "s", "s", "a", "g", "e", "_", "i", "d", ":", " ", "\"" >> \o yaml_safe(message_id) \o << "\"" >>,
       << "s", "o", "u", "r", "c", "e", ":", " ", "g", "m", "a", "i", "l" >>,
       << "-", "-", "-" >>,
       << >>,
       << "#", " " >> \o yaml_safe(subject),
       << >> >>

\* (content_md or "").strip()
BodyText(content_md) == Strip(OrEmpty(content_md))

\* return "\n".join(fm) + (content_md or "").strip() + "\n"
build_markdown(subject, from_, to, date_str, message_id, content_md) ==
    JoinLines(FrontMatter(subject, from_, to, date_str, message_id))
        \o BodyText(content_md) \o << "\n" >>


\* the characters the file names of the model are made of
NameChars == {"a", "/", "*", " ", "-"}

\* the longest name tried, next to the example title
MaxNameLen == 3

\* a max_len short enough for the truncation to cut the names of the model
ShortMaxLen == 2

\* the title `My/Bad:Title*?`
ExampleTitle == << "M", "y", "/", "B", "a", "d", ":", "T", "i", "t", "l", "e", "*", "?" >>

SeqsUpTo(S, n) == UNION {[1 .. k -> S] : k \in 0 .. n}

NameInputs ==
    {NoneStr, SomeStr(ExampleTitle)} \cup {SomeStr(s) : s \in SeqsUpTo(NameChars, MaxNameLen)}

InitName ==
    /\ name_in \in NameInputs
    /\ name_max \in {DefaultMaxLen, ShortMaxLen}
    /\ name_out = << >>
    /\ npc = "call"

IdleName ==
    /\ name_in = NoneStr
    /\ name_max = DefaultMaxLen
    /\ name_out = << >>
    /\ npc = "idle"

\* the call sanitize_filename(name, max_len)
Sanitize ==
    /\ npc = "call"
    /\ name_out' = sanitize_filename(name_in, name_max)
    /\ npc' = "returned"
    /\ UNCHANGED << name_in, name_max >>
    /\ UNCHANGED notNameVars

\* the characters the bodies of the model are made of
BodyChars == {"x", " ", "\n"}

\* the longest converted body tried
MaxBodyLen == 2

MdSubjects == {SomeStr(<< "T" >>), SomeStr(<< " ", "a", "\"", "b" >>), SomeStr(<< >>)}

MdDates == {NoneStr, SomeStr(<< "d", " ", "1" >>)}

MdIds == {SomeStr(<< >>), SomeStr(<< "<", "i", ">" >>)}

MdBodies == {NoneStr} \cup {SomeStr(s) : s \in SeqsUpTo(BodyChars, MaxBodyLen)}

InitMd ==
    /\ md_in \in [subject : MdSubjects, from_ : {SomeStr(<< "m", "e" >>)}, to : {NoneStr},
                  date_str : MdDates, message_id : MdIds, content_md : MdBodies]
    /\ md_out = << >>
    /\ dpc = "call"

IdleMd ==
    /\ md_in = [subject |-> NoneStr, from_ |-> NoneStr, to |-> NoneStr,
                date_str |-> NoneStr, message_id |-> NoneStr, content_md |-> NoneStr]
    /\ md_out = << >>
    /\ dpc = "idle"

\* the call build_markdown(subject, from_, to, date_str, message_id, content_md)
BuildMarkdown ==
    /\ dpc = "call"
    /\ md_out' = build_markdown(md_in.subject, md_in.from_, md_in.to,
                                md_in.date_str, md_in.message_id, md_in.content_md)
    /\ dpc' = "returned"
    /\ UNCHANGED md_in
    /\ UNCHANGED notMdVars


----------------------------------------------------------------------------
(* decode_b64url, main.py lines 58-65                                       *)

\* the URL-safe base64 alphabet, the value of a character being its place - 1
B64Alphabet ==
 << "A", "B", "C", "D", "E", "F", "G", "H", "I", "J", "K", "L", "M",
    "N", "O", "P", "Q", "R", "S", "T", "U", "V", "W", "X", "Y", "Z",
    "a", "b", "c", "d", "e", "f", "g", "h", "i", "j", "k", "l", "m",
    "n", "o", "p", "q", "r", "s", "t", "u", "v", "w", "x", "y", "z",
    "0", "1", "2", "3", "4", "5", "6", "7", "8", "9", "-", "_" >>

\* the characters of code 0 .. 127, a control character being named "\\xNN"
AsciiChars ==
 << "\\x00", "\\x01", "\\x02", "\\x03", "\\x04", "\\x05", "\\x06", "\\x07", "\\x08", "\t",
    "\n", "\\x0b", "\f", "\r", "\\x0e", "\\x0f", "\\x10", "\\x11", "\\x12", "\\x13",
    "\\x14", "\\x15", "\\x16", "\\x17", "\\x18", "\\x19", "\\x1a", "\\x1b", "\\x1c", "\\x1d",
    "\\x1e", "\\x1f", " ", "!", "\"", "#", "$", "%", "&", "'",
    "(", ")", "*", "+", ",", "-", ".", "/", "0", "1",
    "2", "3", "4", "5", "6", "7", "8", "9", ":", ";",
    "<", "=", ">", "?", "@", "A", "B", "C", "D", "E",
    "F", "G", "H", "I", "J", "K", "L", "M", "N", "O",
    "P", "Q", "R", "S", "T", "U", "V", "W", "X", "Y",
    "Z", "[", "\\", "]", "^", "_", "\\x60", "a", "b", "c",
    "d", "e", "f", "g", "h", "i", "j", "k", "l", "m",
    "n", "o", "p", "q", "r", "s", "t", "u", "v", "w",
    "x", "y", "z", "{", "|", "}", "~", "\\x7f" >>

\* U+FFFD, which errors="replace" puts in place of undecodable bytes
ReplacementChar == "\\ufffd"

IsB64Char(c) == c \in {B64Alphabet[i] : i \in 1 .. 64} \cup {"+", "/"}

\* urlsafe_b64decode reads '-' and '_' as '+' and '/', which it accepts too
B64Value(c) ==
    IF c = "+" THEN 62
    ELSE IF c = "/" THEN 63
    ELSE (CHOOSE i \in 1 .. 64 : B64Alphabet[i] = c) - 1

\* data += "=" * (4 - missing_padding)
PadToFour(data) ==
    IF Len(data) % 4 = 0 THEN data
    ELSE data \o [i \in 1 .. 4 - (Len(data) % 4) |-> "="]

\* binascii.a2b_base64 (not strict): characters outside the alphabet are
\* skipped, padding that completes a quad ends the data, an incomplete quad at
\* the end raises binascii.Error.
RECURSIVE A2bBase64(_, _, _, _, _)
A2bBase64(chars, quad_pos, leftchar, pads, out) ==
    IF chars = << >>
    THEN [raised |-> quad_pos # 0, bytes |-> out]
    ELSE LET c == Head(chars)
             rest == Tail(chars)
         IN  IF c = "="
             THEN IF quad_pos >= 2 /\ quad_pos + pads + 1 >= 4
                  THEN [raised |-> FALSE, bytes |-> out]
                  ELSE A2bBase64(rest, quad_pos, leftchar,
                                 IF quad_pos >= 2 THEN pads + 1 ELSE pads, out)
             ELSE IF ~ IsB64Char(c)
             THEN A2bBase64(rest, quad_pos, leftchar, pads, out)
             ELSE LET v == B64Value(c)
                  IN  CASE quad_pos = 0 -> A2bBase64(rest, 1, v, 0, out)
                        [] quad_pos = 1 ->
                             A2bBase64(rest, 2, v % 16, 0,
                                       Append(out, leftchar * 4 + v \div 16))
                        [] quad_pos = 2 ->
                             A2bBase64(rest, 3, v % 4, 0,
                                       Append(out, leftchar * 16 + v \div 4))
                        [] quad_pos = 3 ->
                             A2bBase64(rest, 0, 0, 0,
                                       Append(out, leftchar * 64 + v))

\* bytes.decode("utf-8", errors="replace") of bytes below 128, which are the
\* bytes the payloads of the model decode to; a byte from 128 on is shown
\* as the replacement character
Utf8Decode(bytes) ==
    [i \in 1 .. Len(bytes) |->
        IF bytes[i] < 128 THEN AsciiChars[bytes[i] + 1] ELSE ReplacementChar]

\* decode_b64url(data): [raised, s], raised when the base64 decoder raises
decode_b64url(data) ==
    IF ~ Truthy(data)
    THEN [raised |-> FALSE, s |-> << >>]
    ELSE LET r == A2bBase64(PadToFour(data.s), 0, 0, 0, << >>)
         IN  [raised |-> r.raised,
              s |-> IF r.raised THEN << >> ELSE Utf8Decode(r.bytes)]


----------------------------------------------------------------------------
(* extract_best_body, main.py lines 76-107                                  *)
(* A MessagePart is a record [mimeType, data, parts]: data is               *)
(* payload["body"]["data"] (NoneStr when the body or the data is absent),   *)
(* parts the sequence payload["parts"] (empty when absent).                 *)

\* an empty or absent part: `not payload`
EmptyPart == [mimeType |-> "", data |-> NoneStr, parts |-> << >>]

NoBody == [raised |-> FALSE, html |-> NoneStr, text |-> NoneStr]

KeepLast(candidate, found) ==
    IF Truthy(found) THEN found ELSE candidate

\* if h and not html_candidate: html_candidate = h
KeepFirst(candidate, found) ==
    IF Truthy(found) /\ ~ Truthy(candidate) THEN found ELSE candidate

RECURSIVE extract_best_body(_)
RECURSIVE ScanParts(_, _)

\* lines 100-105: the loop over parts, acc holding the candidates so far; an
\* exception raised in a part's walk ends the loop
ScanParts(parts, acc) ==
    IF parts = << >> THEN acc
    ELSE LET r == extract_best_body(Head(parts))
         IN  IF r.raised
             THEN [raised |-> TRUE, html |-> NoneStr, text |-> NoneStr]
             ELSE ScanParts(Tail(parts),
                            [raised |-> FALSE,
                             html |-> KeepFirst(acc.html, r.html),
                             text |-> KeepFirst(acc.text, r.text)])

\* the returned pair (html, text); raised when decode_b64url raises
extract_best_body(payload) ==
    IF payload = EmptyPart THEN NoBody
    ELSE IF payload.mimeType = "text/html" /\ Truthy(payload.data)
    THEN LET d == decode_b64url(payload.data)
         IN  [raised |-> d.raised, html |-> SomeStr(d.s), text |-> NoneStr]
    ELSE IF payload.mimeType = "text/plain" /\ Truthy(payload.data)
    THEN LET d == decode_b64url(payload.data)
         IN  [raised |-> d.raised, html |-> NoneStr, text |-> SomeStr(d.s)]
    ELSE ScanParts(payload.parts, NoBody)

\* html_to_markdown, lines 110-118: the conversion is done by BeautifulSoup and
\* markdownify, which are not part of the repository; its result is written
\* as the application of markdownify to the html
html_to_markdown(html) == << "markdownify(" >> \o html \o << ")" >>

SelectContentTextFirst(html, text) ==
    IF Truthy(text) THEN text.s
    ELSE IF Truthy(html) THEN html_to_markdown(html.s)
    ELSE << >>

\* main, lines 258-263: the body of the document
SelectContent(html, text) ==
    IF Truthy(html) THEN html_to_markdown(html.s)
    ELSE IF Truthy(text) THEN text.s
    ELSE << >>

\* the most parts a tree of the model has
MaxNodes == 4

\* the payloads of the model, base64url as the API sends it: "<b>", and "hi"
\* without its padding
PayloadB == SomeStr(<< "P", "G", "I", "-" >>)

PayloadHi == SomeStr(<< "a", "G", "k" >>)

\* the media types and payloads a part of the model has
PartLabels ==
    ({"text/html"} \X {NoneStr, PayloadB, PayloadHi})
    \cup ({"text/plain"} \X {NoneStr, PayloadHi})
    \cup ({"multipart/alternative"} \X {NoneStr, PayloadB})
    \cup {<< EmptyPart.mimeType, EmptyPart.data >>}

\* A tree of n parts is drawn as its parts 1 .. n in depth-first order, with
\* the parent of each part but the first and the label of each part.
RECURSIVE OnPathToRoot(_, _, _)
OnPathToRoot(parent, a, i) ==
    \/ a = i
    \/ i > 1 /\ OnPathToRoot(parent, a, parent[i])

\* the numbering is depth-first, and an empty part has no parts of its own
IsTreeShape(n, parent, label) ==
    /\ \A i \in 2 .. n : parent[i] < i
    /\ \A i \in 2 .. n : OnPathToRoot(parent, parent[i], i - 1)
    /\ \A i \in 2 .. n : label[parent[i]] # << EmptyPart.mimeType, EmptyPart.data >>

\* the k-th smallest element of a set of numbers
Nth(S, k) == CHOOSE i \in S : Cardinality({j \in S : j <= i}) = k

RECURSIVE PartAt(_, _, _, _)
PartAt(n, parent, label, i) ==
    LET kids == {j \in 2 .. n : parent[j] = i}
    IN  [mimeType |-> label[i][1],
         data |-> label[i][2],
         parts |-> [k \in 1 .. Cardinality(kids) |->
                       PartAt(n, parent, label, Nth(kids, k))]]

InitBody ==
    /\ \E n \in 1 .. MaxNodes :
         \E parent \in [2 .. n -> 1 .. n - 1], label \in [1 .. n -> PartLabels] :
            /\ IsTreeShape(n, parent, label)
            /\ body_in = PartAt(n, parent, label, 1)
    /\ best = NoBody
    /\ content = << >>
    /\ bpc = "call"

IdleBody ==
    /\ body_in = EmptyPart
    /\ best = NoBody
    /\ content = << >>
    /\ bpc = "idle"

\* main, lines 256-263: html, text = extract_best_body(payload) and the choice
\* of the body
ExtractBody ==
    /\ bpc = "call"
    /\ best' = extract_best_body(body_in)
    /\ content' = IF best'.raised THEN << >> ELSE SelectContent(best'.html, best'.text)
    /\ bpc' = IF best'.raised THEN "raised" ELSE "returned"
    /\ UNCHANGED body_in
    /\ UNCHANGED notBodyVars


----------------------------------------------------------------------------
(* Numbers and header names                                                 *)

DigitChars == << "0", "1", "2", "3", "4", "5", "6", "7", "8", "9" >>

IsDigit(c) == c \in {DigitChars[i] : i \in 1 .. 10}

DigitValue(c) == (CHOOSE i \in 1 .. 10 : DigitChars[i] = c) - 1

\* str(n) of a natural number
RECURSIVE Decimal(_)
Decimal(n) ==
    IF n < 10 THEN << DigitChars[n + 1] >>
    ELSE Decimal(n \div 10) \o << DigitChars[(n % 10) + 1] >>

\* f"{idx:03d}"
ZeroPad3(n) ==
    LET d == Decimal(n)
    IN  IF Len(d) >= 3 THEN d ELSE [i \in 1 .. 3 - Len(d) |-> "0"] \o d

\* the value of a run of digits and single underscores between digits
RECURSIVE DigitsValue(_, _)
DigitsValue(s, acc) ==
    IF s = << >> THEN acc
    ELSE IF Head(s) = "_" THEN DigitsValue(Tail(s), acc)
    ELSE DigitsValue(Tail(s), 10 * acc + DigitValue(Head(s)))

\* digits, with single underscores between digits only
IsDigitRun(s) ==
    /\ s # << >>
    /\ \A i \in 1 .. Len(s) : IsDigit(s[i]) \/ s[i] = "_"
    /\ IsDigit(s[1]) /\ IsDigit(s[Len(s)])
    /\ \A i \in 1 .. Len(s) - 1 : ~ (s[i] = "_" /\ s[i + 1] = "_")

\* int(x) of None or of a str: [raised, n]; raised is the TypeError of
\* int(None) or the ValueError of a text that is no decimal integer
IntOf(x) ==
    IF x.none THEN [raised |-> TRUE, n |-> 0]
    ELSE LET t == Strip(x.s)
             signed == t # << >> /\ Head(t) \in {"+", "-"}
             digits == IF signed THEN Tail(t) ELSE t
         IN  IF ~ IsDigitRun(digits) THEN [raised |-> TRUE, n |-> 0]
             ELSE [raised |-> FALSE,
                   n |-> IF signed /\ Head(t) = "-"
                         THEN 0 - DigitsValue(digits, 0)
                         ELSE DigitsValue(digits, 0)]

UpperChars ==
 << "A", "B", "C", "D", "E", "F", "G", "H", "I", "J", "K", "L", "M",
    "N", "O", "P", "Q", "R", "S", "T", "U", "V", "W", "X", "Y", "Z" >>

LowerChars ==
 << "a", "b", "c", "d", "e", "f", "g", "h", "i", "j", "k", "l", "m",
    "n", "o", "p", "q", "r", "s", "t", "u", "v", "w", "x", "y", "z" >>

\* str.lower() of the letters A .. Z
LowerChar(c) ==
    IF c \in {UpperChars[i] : i \in 1 .. 26}
    THEN LowerChars[CHOOSE i \in 1 .. 26 : UpperChars[i] = c]
    ELSE c

Lower(s) == [i \in 1 .. Len(s) |-> LowerChar(s[i])]

\* find_header, lines 68-73: headers is a sequence of [name, value], both
\* optional strings; the first header of that name, whatever its case
RECURSIVE find_header(_, _)
find_header(headers, name) ==
    IF headers = << >> THEN << >>
    ELSE IF Lower(OrEmpty(Head(headers).name)) = Lower(name)
         THEN OrEmpty(Head(headers).value)
         ELSE find_header(Tail(headers), name)

\* parse_internal_date, lines 121-128: "" for a missing or unparsable
\* timestamp; otherwise the local time of the run's time zone, which is written
\* as the application of strftime to the timestamp
parse_internal_date(ms) ==
    IF ~ Truthy(ms) THEN << >>
    ELSE IF IntOf(ms).raised THEN << >>
    ELSE LET n == IntOf(ms).n
         IN  << "strftime(" >>
                 \o (IF n < 0 THEN << "-" >> \o Decimal(0 - n) ELSE Decimal(n))
                 \o << ")" >>


----------------------------------------------------------------------------
(* main, main.py lines 226-279: fetch, sort, save                           *)
(* A message is a record [id, internalDate, headers, payload]: internalDate *)
(* is [absent, val] (absent: the message has no such key), headers is       *)
(* payload["headers"], payload the MessagePart tree of payload.             *)

\* the most references the listing hands to main
MaxRefs == 3

\* internalDate as the API may deliver it
NoTimestamp == [absent |-> TRUE, val |-> NoneStr]

Timestamp(x) == [absent |-> FALSE, val |-> x]

TimestampChoices ==
    {NoTimestamp, Timestamp(NoneStr), Timestamp(SomeStr(<< >>)),
     Timestamp(SomeStr(<< "x", "1" >>)), Timestamp(SomeStr(<< "1", "0", "0" >>)),
     Timestamp(SomeStr(<< "2", "0", "0" >>)), Timestamp(SomeStr(<< "3", "0", "0" >>))}

\* what gmail_get_message does: it returns the message, raises HttpError (the
\* server answered with an error status) or raises another exception (execute()
\* passes on the transport's errors, such as a timeout or a reset connection)
FetchOutcomes == {"ok", "HttpError", "OtherError"}

\* the headers and the payload of the message of a reference, three kinds
HeadersOf(id) ==
    CASE id % 3 = 1 ->
           << [name |-> SomeStr(<< "s", "u", "b", "j", "e", "c", "t" >>), value |-> SomeStr(<< "C", "h", "/", "1", ":", " ", "a", "*", "?" >>)],
              [name |-> SomeStr(<< "F", "r", "o", "m" >>), value |-> SomeStr(<< "\"", "M", "e", "\"", " ", "<", "m", "@", "x", ">" >>)] >>
      [] id % 3 = 2 ->
           << [name |-> SomeStr(<< "D", "a", "t", "e" >>), value |-> SomeStr(<< "M", "o", "n", ",", " ", "1", " ", "J", "a", "n" >>)],
              [name |-> SomeStr(<< "S", "u", "b", "j", "e", "c", "t" >>), value |-> SomeStr(<< >>)] >>
      [] OTHER -> << >>

PayloadOf(id) ==
    CASE id % 3 = 1 ->
           [mimeType |-> "multipart/alternative", data |-> NoneStr,
            parts |-> << [mimeType |-> "text/plain", data |-> PayloadHi, parts |-> << >>],
                         [mimeType |-> "text/html", data |-> PayloadB, parts |-> << >>] >>]
      [] id % 3 = 2 ->
           [mimeType |-> "text/plain", data |-> PayloadHi, parts |-> << >>]
      [] OTHER -> EmptyPart

MessageOf(id, ts) ==
    [id |-> id, internalDate |-> ts, headers |-> HeadersOf(id), payload |-> PayloadOf(id)]

\* x.get("internalDate", "0")
GetInternalDate(msg) ==
    IF msg.internalDate.absent THEN SomeStr(<< "0" >>) ELSE msg.internalDate.val

\* key=lambda x: int(x.get("internalDate", "0")): [raised, n]
SortKey(msg) == IntOf(GetInternalDate(msg))

InsertBeforeEqual(sorted, msg) ==
    LET k == Cardinality({i \in 1 .. Len(sorted) : SortKey(sorted[i]).n < SortKey(msg).n})
    IN  SubSeq(sorted, 1, k) \o << msg >> \o SubSeq(sorted, k + 1, Len(sorted))

\* msg put behind the messages of `sorted` whose key is not greater
InsertStable(sorted, msg) ==
    LET k == Cardinality({i \in 1 .. Len(sorted) : SortKey(sorted[i]).n <= SortKey(msg).n})
    IN  SubSeq(sorted, 1, k) \o << msg >> \o SubSeq(sorted, k + 1, Len(sorted))

\* list.sort(key=...): ascending and stable
RECURSIVE SortedByKey(_)
SortedByKey(msgs) ==
    IF msgs = << >> THEN << >>
    ELSE InsertStable(SortedByKey(SubSeq(msgs, 1, Len(msgs) - 1)), msgs[Len(msgs)])

\* lines 247-270, for the message msg at position idx: the file main writes
Chapter(msg, idx, file_prefix) ==
    LET found == find_header(msg.headers, << "S", "u", "b", "j", "e", "c", "t" >>)
        subject == IF found # << >> THEN found ELSE << "S", "e", "m", " ", "a", "s", "s", "u", "n", "t", "o", " " >> \o Decimal(idx)
        from_ == find_header(msg.headers, << "F", "r", "o", "m" >>)
        to == find_header(msg.headers, << "T", "o" >>)
        date == find_header(msg.headers, << "D", "a", "t", "e" >>)
        internal == IF msg.internalDate.absent THEN NoneStr ELSE msg.internalDate.val
        date_str == IF date # << >> THEN date ELSE parse_internal_date(internal)
        message_id == find_header(msg.headers, << "M", "e", "s", "s", "a", "g", "e", "-", "I", "d" >>)
        body == extract_best_body(msg.payload)
        content_md == SelectContent(body.html, body.text)
        filename == ZeroPad3(idx) \o << " ", "-", " " >> \o sanitize_filename(SomeStr(subject), DefaultMaxLen)
                        \o << ".", "m", "d" >>
    IN  [idx |-> idx,
         id |-> msg.id,
         filename |-> IF file_prefix # << >> THEN file_prefix \o filename ELSE filename,
         text |-> build_markdown(SomeStr(subject), SomeStr(from_), SomeStr(to),
                                 SomeStr(date_str), SomeStr(message_id),
                                 SomeStr(content_md))]

InitMain ==
    /\ \E n \in 0 .. MaxRefs : msg_refs = [i \in 1 .. n |-> i]
    /\ prefix \in {<< >>, << "b", "k", "-" >>}
    /\ fetch_i = 0
    /\ full_msgs = << >>
    /\ mpc = "fetch"
    /\ written = << >>
    /\ outcomes = << >>
    /\ handed = << >>

IdleMain ==
    /\ msg_refs = << >>
    /\ prefix = << >>
    /\ fetch_i = 0
    /\ full_msgs = << >>
    /\ mpc = "idle"
    /\ written = << >>
    /\ outcomes = << >>
    /\ handed = << >>

\* lines 228-230: nothing was listed, main returns
NoneFound ==
    /\ mpc = "fetch"
    /\ msg_refs = << >>
    /\ mpc' = "done"
    /\ UNCHANGED << msg_refs, prefix, fetch_i, full_msgs, written, outcomes, handed >>
    /\ UNCHANGED notMainVars

\* lines 235-239: one round of the fetch loop. Only HttpError is caught; any
\* other exception leaves the loop and main.
FetchOne ==
    /\ mpc = "fetch"
    /\ fetch_i < Len(msg_refs)
    /\ \E outcome \in FetchOutcomes, ts \in TimestampChoices :
          /\ outcome # "ok" => ts = NoTimestamp
          /\ outcomes' = Append(outcomes, outcome)
          /\ full_msgs' = IF outcome = "ok"
                          THEN Append(full_msgs, MessageOf(msg_refs[fetch_i + 1], ts))
                          ELSE full_msgs
          /\ mpc' = IF outcome = "OtherError" THEN "raised in fetch" ELSE "fetch"
    /\ fetch_i' = fetch_i + 1
    /\ UNCHANGED << msg_refs, prefix, written, handed >>
    /\ UNCHANGED notMainVars

\* line 242: the sort, after the last round of the fetch loop. A key that
\* raises (TypeError, ValueError) leaves main; the list is as it was.
SortFetched ==
    /\ mpc = "fetch"
    /\ msg_refs # << >>
    /\ fetch_i = Len(msg_refs)
    /\ handed' = full_msgs
    /\ IF \E i \in 1 .. Len(full_msgs) : SortKey(full_msgs[i]).raised
       THEN /\ mpc' = "raised in sort"
            /\ UNCHANGED full_msgs
       ELSE /\ mpc' = "save"
            /\ full_msgs' = SortedByKey(full_msgs)
    /\ UNCHANGED << msg_refs, prefix, fetch_i, written, outcomes >>
    /\ UNCHANGED notMainVars

\* lines 246-277: one round of the save loop, the file of the next message
SaveChapter ==
    /\ mpc = "save"
    /\ Len(written) < Len(full_msgs)
    /\ written' = Append(written,
                         Chapter(full_msgs[Len(written) + 1], Len(written) + 1, prefix))
    /\ UNCHANGED << msg_refs, prefix, fetch_i, full_msgs, mpc, outcomes, handed >>
    /\ UNCHANGED notMainVars

\* line 279: every message has its file
Finish ==
    /\ mpc = "save"
    /\ Len(written) = Len(full_msgs)
    /\ mpc' = "done"
    /\ UNCHANGED << msg_refs, prefix, fetch_i, full_msgs, written, outcomes, handed >>
    /\ UNCHANGED notMainVars

----------------------------------------------------------------------------
(* Specifications                                                           *)

NextList == ListBreak \/ ListPage

\* gmail_list_all run for one cap against one server
StartList == InitList /\ IdleName /\ IdleMd /\ IdleBody /\ IdleMain

SpecList ==
    StartList /\ [][NextList]_vars

NextName == Sanitize

\* sanitize_filename called on one name
StartName == IdleList /\ InitName /\ IdleMd /\ IdleBody /\ IdleMain

SpecName ==
    StartName /\ [][NextName]_vars

NextMd == BuildMarkdown

\* build_markdown called on one set of arguments
StartMd == IdleList /\ IdleName /\ InitMd /\ IdleBody /\ IdleMain

SpecMd ==
    StartMd /\ [][NextMd]_vars

NextBody == ExtractBody

\* extract_best_body called on one tree, and the body main builds from it
StartBody == IdleList /\ IdleName /\ IdleMd /\ InitBody /\ IdleMain

SpecBody ==
    StartBody /\ [][NextBody]_vars

NextMain == NoneFound \/ FetchOne \/ SortFetched \/ SaveChapter \/ Finish

\* main from the return of gmail_list_all on: the fetch loop, the sort, the
\* save loop
StartMain == IdleList /\ IdleName /\ IdleMd /\ IdleBody /\ InitMain

SpecMain ==
    StartMain /\ [][NextMain]_vars

----------------------------------------------------------------------------
(* Claims about gmail_list_all                                              *)

\* C1: every list request carries a page size equal to
\* min(500, max_results - references accumulated so far), which is at least 1
\* and at most 500, whatever the cap and whatever the server answered before.
C1_PageSizeWithinCap ==
    \A i \in 1 .. Len(requests) :
        /\ requests[i].maxResults = Min(PageCap, max_results - requests[i].have)
        /\ requests[i].maxResults >= 1
        /\ requests[i].maxResults <= PageCap

\* C1 witness: a request was sent while more than 500 references were still
\* wanted, after a response that held more than was requested.
C1_Witness ==
    \E i \in 1 .. Len(requests) :
        /\ max_results - requests[i].have > PageCap
        /\ requests[i].maxResults = PageCap
        /\ overfull

\* C2: no request is sent once the accumulated count has reached max_results;
\* with max_results = 650 and a server that fills every page and always offers
\* a token exactly the requests 500 and 150 are sent and 650 references are
\* returned; a server that never returns more than requested never makes the
\* list longer than max_results.
C2_StopsAtCap ==
    /\ \A i \in 1 .. Len(requests) : requests[i].have < max_results
    /\ (max_results = 650 /\ short_pages = 0 /\ all_tokens)
          => /\ Len(requests) <= 2
             /\ lpc = "done"
                  => /\ Len(requests) = 2
                     /\ requests[1].maxResults = 500
                     /\ requests[2].maxResults = 150
                     /\ Len(messages) = 650
    /\ ~ overfull => Len(messages) <= max_results

\* C2 witness: the run for 650 against the filling server that always offers a
\* token has returned.
C2_Witness ==
    /\ lpc = "done"
    /\ max_results = 650
    /\ short_pages = 0
    /\ all_tokens
    /\ page_token # NoToken
    /\ Len(requests) = 2

\* C10: against a server that returns at least one reference on every page
\* that carries a continuation token, every round that does not end the loop
\* adds to the accumulated count, so at most max_results requests are sent.
C10_RequestsBounded ==
    stalls = 0 =>
        /\ Len(requests) <= max_results
        /\ lpc = "loop" => Len(messages) >= Len(requests)

\* C10 witness: a run of max_results requests, each answered by one reference
\* and a token, has returned.
C10_Witness ==
    /\ lpc = "done"
    /\ stalls = 0
    /\ max_results >= 2
    /\ Len(requests) = max_results
    /\ all_tokens

----------------------------------------------------------------------------
(* Claims about sanitize_filename                                           *)

\* the rest of sanitize_filename around the replacement of the forbidden
\* characters: trimmed before; whitespace collapsed, cut, trimmed and the
\* placeholder substituted after
C8_Around(replaced) ==
    LET n == Strip(Take(CollapseSpace(replaced), name_max))
    IN  IF n # << >> THEN n ELSE SemTitulo

\* s with each forbidden character replaced by one '-', position by position
C8_OneForOne(s) ==
    [i \in 1 .. Len(s) |-> IF s[i] \in ForbiddenChars THEN "-" ELSE s[i]]

\* the positions of s that start a run of forbidden characters or hold another
\* character
C8_Kept(s) ==
    {i \in 1 .. Len(s) :
        s[i] \notin ForbiddenChars \/ i = 1 \/ s[i - 1] \notin ForbiddenChars}

\* s with each maximal run of forbidden characters replaced by one '-'
C8_OnePerRun(s) ==
    LET kept == C8_Kept(s)
        at(k) == CHOOSE i \in kept : Cardinality({j \in kept : j <= i}) = k
    IN  [k \in 1 .. Cardinality(kept) |->
            IF s[at(k)] \in ForbiddenChars THEN "-" ELSE s[at(k)]]

----------------------------------------------------------------------------
(* Claims about build_markdown                                              *)

\* the text ends with a newline character that no other newline precedes
C9_EndsWithOneNewline(t) ==
    /\ Len(t) >= 1
    /\ t[Len(t)] = "\n"
    /\ Len(t) >= 2 => t[Len(t) - 1] # "\n"

\* the lines up to the body, each ended by its newline: the metadata block, a
\* blank line, the heading, a blank line
C9_Head ==
    LET q(x) == yaml_safe(x) \o << "\"", "\n" >>
    IN  << "-", "-", "-" >> \o << "\n" >>
        \o << "t", "i", "t", "l", "e", ":", " ", "\"" >> \o q(md_in.subject)
        \o << "f", "r", "o", "m", ":", " ", "\"" >> \o q(md_in.from_)
        \o << "t", "o", ":", " ", "\"" >> \o q(md_in.to)
        \o << "d", "a", "t", "e", ":", " ", "\"" >> \o q(md_in.date_str)
        \o << "m", "e", "s", "s", "a", "g", "e", "_", "i", "d", ":", " ", "\"" >> \o q(md_in.message_id)
        \o << "s", "o", "u", "r", "c", "e", ":", " ", "g", "m", "a", "i", "l" >> \o << "\n" >>
        \o << "-", "-", "-" >> \o << "\n" >>
        \o << "\n" >>
        \o << "#", " " >> \o yaml_safe(md_in.subject) \o << "\n" >>
        \o << "\n" >>

\* C9: the text is the metadata block between two `---` lines, a blank line,
\* the heading `# <title>`, a blank line, the body without its leading and
\* trailing whitespace, and it ends with exactly one newline character.
C9_Layout ==
    dpc = "returned" =>
        /\ md_out = C9_Head \o Strip(OrEmpty(md_in.content_md)) \o << "\n" >>
        /\ C9_EndsWithOneNewline(md_out)

----------------------------------------------------------------------------
(* Claims about extract_best_body and the choice of the body                *)

\* a part that carries a text/html or text/plain payload
CarriesBody(t) ==
    t.mimeType \in {"text/html", "text/plain"} /\ Truthy(t.data)

RECURSIVE WalkPart(_, _)
RECURSIVE WalkParts(_, _)

\* the parts of a tree in depth-first pre-order, children in the given order,
\* each with `below`: some ancestor of it carries a text/html or text/plain
\* payload, and `childless`: it has no parts of its own
WalkPart(t, below) ==
    << [mimeType |-> t.mimeType, data |-> t.data, below |-> below,
        childless |-> t.parts = << >>] >>
        \o WalkParts(t.parts, below \/ CarriesBody(t))

WalkParts(parts, below) ==
    IF parts = << >> THEN << >>
    ELSE WalkPart(Head(parts), below) \o WalkParts(Tail(parts), below)

Decoded(e) == decode_b64url(e.data).s

\* a text/html part with a payload (that decodes to a text that is not empty)
IsHtmlLeaf(e) == e.mimeType = "text/html" /\ Truthy(e.data) /\ Decoded(e) # << >>

IsTextLeaf(e) == e.mimeType = "text/plain" /\ Truthy(e.data) /\ Decoded(e) # << >>

IsChildlessHtmlLeaf(e) == IsHtmlLeaf(e) /\ e.childless

IsChildlessTextLeaf(e) == IsTextLeaf(e) /\ e.childless

IsOpenHtmlLeaf(e) == IsHtmlLeaf(e) /\ ~ e.below

IsOpenTextLeaf(e) == IsTextLeaf(e) /\ ~ e.below

\* C6 as stated: (None, None) for an empty tree, and whenever the tree holds a
\* text/html leaf with a payload anywhere, html is the decoded payload of the
\* leftmost one in depth-first pre-order, whatever its siblings and ancestors.
C6_Original ==
    bpc = "returned" =>
        /\ body_in = EmptyPart => best.html = NoneStr /\ best.text = NoneStr
        /\ LET leaves == SelectSeq(WalkPart(body_in, FALSE), IsHtmlLeaf)
           IN  leaves # << >> => best.html = SomeStr(Decoded(leaves[1]))

\* C6 amended: (None, None) for an empty tree, and whenever the tree holds a
\* text/html leaf with a payload none of whose ancestors carries a text/html
\* or text/plain payload, html is the decoded payload of the leftmost such leaf
\* in depth-first pre-order: first found wins, and no sibling and no ancestor
\* without such a payload hides it. When every text/html leaf is below a part
\* that carries such a payload, no html is found.
C6_LeftmostOpenHtml ==
    bpc = "returned" =>
        /\ body_in = EmptyPart => best.html = NoneStr /\ best.text = NoneStr
        /\ LET leaves == SelectSeq(WalkPart(body_in, FALSE), IsOpenHtmlLeaf)
           IN  /\ leaves # << >> => best.html = SomeStr(Decoded(leaves[1]))
               /\ leaves = << >> => ~ Truthy(best.html)

\* C6 witness: the tree holds two text/html leaves with different payloads,
\* the first of them not a child of the root, behind a part that is no
\* text/html leaf, and a multipart ancestor with a payload; html is the first.
C6_Witness ==
    /\ bpc = "returned"
    /\ LET walk == WalkPart(body_in, FALSE)
           leaves == SelectSeq(walk, IsOpenHtmlLeaf)
       IN  /\ Len(leaves) >= 2
           /\ Decoded(leaves[1]) # Decoded(leaves[2])
           /\ best.html = SomeStr(Decoded(leaves[1]))
           /\ Len(walk) >= 4
           /\ ~ IsHtmlLeaf(walk[1]) /\ Truthy(walk[1].data)
           /\ ~ IsHtmlLeaf(walk[2])
           /\ \A i \in 1 .. Len(body_in.parts) :
                 ~ (body_in.parts[i].mimeType = "text/html"
                    /\ body_in.parts[i].data = leaves[1].data)

\* the body main is to build: the HTML conversion when an html was found, the
\* plain text when only a text was found, the empty string otherwise
C7_BodyChoice ==
    content = IF Truthy(best.html) THEN html_to_markdown(best.html.s)
              ELSE IF Truthy(best.text) THEN best.text.s
              ELSE << >>

\* C7 as stated: a tree that holds a text/html leaf with payload and a
\* separate text/plain leaf with payload (leaves taken as parts without parts
\* of their own) gives both an html and a text, and
\* the body is built from the html, from the text only without an html, and
\* is empty only without both.
C7_Original ==
    bpc = "returned" =>
        /\ LET walk == WalkPart(body_in, FALSE)
           IN  (SelectSeq(walk, IsChildlessHtmlLeaf) # << >>
                /\ SelectSeq(walk, IsChildlessTextLeaf) # << >>)
                  => Truthy(best.html) /\ Truthy(best.text)
        /\ C7_BodyChoice

\* C7 amended: a tree that holds a text/html leaf with payload and a separate
\* text/plain leaf with payload, neither of them below a part that carries a
\* text/html or text/plain payload, gives both an html and a text; the body is
\* built from the html, from the text only without an html, and is empty only
\* without both.
C7_BothFound ==
    bpc = "returned" =>
        /\ LET walk == WalkPart(body_in, FALSE)
           IN  (SelectSeq(walk, IsOpenHtmlLeaf) # << >>
                /\ SelectSeq(walk, IsOpenTextLeaf) # << >>)
                  => Truthy(best.html) /\ Truthy(best.text)
        /\ C7_BodyChoice

\* C7 witness: html and text were found in different children of the root, the
\* text in an earlier one, and the body is the conversion of the html.
C7_Witness ==
    /\ bpc = "returned"
    /\ Len(body_in.parts) >= 2
    /\ IsTextLeaf(WalkPart(body_in.parts[1], FALSE)[1])
    /\ SelectSeq(WalkPart(body_in.parts[2], FALSE), IsOpenHtmlLeaf) # << >>
    /\ Truthy(best.html)
    /\ Truthy(best.text)
    /\ content = html_to_markdown(best.html.s)

----------------------------------------------------------------------------
(* Claims about the fetch loop, the sort and the save loop of main          *)

\* the references whose fetch returned a message, in the order of msg_refs
RECURSIVE FetchedRefs(_)
FetchedRefs(k) ==
    IF k = 0 THEN << >>
    ELSE IF outcomes[k] = "ok" THEN Append(FetchedRefs(k - 1), msg_refs[k])
    ELSE FetchedRefs(k - 1)

IdsOf(msgs) == [i \in 1 .. Len(msgs) |-> msgs[i].id]

\* C3: a fetch that fails never aborts the batch: every later reference is
\* still fetched, and the list handed to the sort holds exactly the messages
\* whose fetch succeeded, each once, in the order of the references.
C3_FailureNeverAborts ==
    /\ mpc # "raised in fetch"
    /\ (mpc # "fetch" /\ msg_refs # << >>) =>
          /\ Len(outcomes) = Len(msg_refs)
          /\ IdsOf(handed) = FetchedRefs(Len(outcomes))

\* the receipt timestamp of a message whose internalDate is a decimal integer
\* or absent
ReceiptTime(msg) ==
    IF msg.internalDate.absent THEN 0 ELSE IntOf(msg.internalDate.val).n

\* the place of the message of that id in the list handed to the sort
FetchPlace(id) == CHOOSE i \in 1 .. Len(handed) : handed[i].id = id

\* C4: the messages main turns into documents are the successfully fetched
\* ones in ascending order of internalDate, messages of equal timestamp in the
\* order they were fetched in, and the ordinals 1..n follow that order without
\* a gap; references [1, 2, 3] with timestamps 300 and 200 for 1 and 3 and a
\* failed fetch of 2 give [3, 1].
C4_StableAscending ==
    mpc \in {"save", "done"} =>
        /\ IdsOf(handed) = FetchedRefs(Len(outcomes))
        /\ Len(full_msgs) = Len(handed)
        /\ \A i \in 1 .. Len(full_msgs) : full_msgs[i] = handed[FetchPlace(full_msgs[i].id)]
        /\ \A i, j \in 1 .. Len(full_msgs) :
              i < j =>
                 /\ ReceiptTime(full_msgs[i]) <= ReceiptTime(full_msgs[j])
                 /\ ReceiptTime(full_msgs[i]) = ReceiptTime(full_msgs[j])
                       => FetchPlace(full_msgs[i].id) < FetchPlace(full_msgs[j].id)
        /\ \A k \in 1 .. Len(written) :
              /\ written[k].idx = k
              /\ written[k].id = full_msgs[k].id
              /\ SubSeq(written[k].filename, Len(prefix) + 1, Len(prefix) + 3) = ZeroPad3(k)
        /\ mpc = "done" => Len(written) = Len(full_msgs)
        /\ (/\ msg_refs = << 1, 2, 3 >>
            /\ outcomes = << "ok", "HttpError", "ok" >>
            /\ handed[1].internalDate = Timestamp(SomeStr(<< "3", "0", "0" >>))
            /\ handed[2].internalDate = Timestamp(SomeStr(<< "2", "0", "0" >>)))
              => IdsOf(full_msgs) = << 3, 1 >>

\* C4 witness: the run of the example has written its two documents, the
\* message of reference 3 as number 1 and that of reference 1 as number 2.
C4_Witness ==
    /\ mpc = "done"
    /\ msg_refs = << 1, 2, 3 >>
    /\ outcomes = << "ok", "HttpError", "ok" >>
    /\ handed[1].internalDate = Timestamp(SomeStr(<< "3", "0", "0" >>))
    /\ handed[2].internalDate = Timestamp(SomeStr(<< "2", "0", "0" >>))
    /\ IdsOf(written) = << 3, 1 >>
    /\ written[2].idx = 2

\* a timestamp that is missing or no decimal integer counts as 0
ReceiptTimeOrZero(msg) ==
    IF msg.internalDate.absent \/ IntOf(msg.internalDate.val).raised
    THEN 0
    ELSE IntOf(msg.internalDate.val).n

\* C5: a fetched message whose internalDate is absent, null, empty or no
\* decimal integer does not make the ordering fail: it is sorted as timestamp
\* 0 and the run goes on to write all documents.
C5_BadTimestampSortsAsZero ==
    /\ mpc # "raised in sort"
    /\ mpc \in {"save", "done"} =>
          \A i, j \in 1 .. Len(full_msgs) :
             i < j => ReceiptTimeOrZero(full_msgs[i]) <= ReceiptTimeOrZero(full_msgs[j])
    /\ mpc = "done" => Len(written) = Len(handed)

=============================================================================
